---- MODULE Spec2Model ----
(***************************************************************************)
(* Model of app.py: the Flask intake gate (alchemy_webhook_receiver), the  *)
(* background worker (process_webhook_payload) and the notifier            *)
(* (send_to_discord) of the Alchemy -> Discord dispute relay.              *)
(*                                                                         *)
(* Python strings are sequences of character codes (ord), so that the hex  *)
(* decode, the title regex, str.strip, int() and the exact comparisons are *)
(* computed the way the code computes them.                                *)
(***************************************************************************)
EXTENDS Integers, Sequences, FiniteSets, TLC

\* ------------------------------------------------------------------ bounds
\* Longest event.activity list of a payload.
MaxItems == 2
\* Number of requests in flight in the concurrent specification.
MaxReq == 2

\* ------------------------------------------------------- program constants
\* title[:250] + "..." (extract_title_from_ancillary).
TitleMaxLen == 250
\* tx_hash[:12] in the Transaction field.
HashPrefixLen == 12

\* ---------------------------------------------------------- string literals
\* "DisputePrice"
TARGET_DISPUTE_EVENT_NAME == <<68,105,115,112,117,116,101,80,114,105,99,101>>
\* "N/A"
S_NA == <<78,47,65>>
\* "0x"
S_0x == <<48,120>>
\* "title:"
S_title == <<116,105,116,108,101,58>>
\* "description:"
S_description == <<100,101,115,99,114,105,112,116,105,111,110,58>>
\* ", desc:"
S_desc == <<44,32,100,101,115,99,58>>
\* "resolution_criteria:"
S_resolution == <<114,101,115,111,108,117,116,105,111,110,95,99,114,105,116,101,114,105,97,58>>
\* "..."
S_ellipsis == <<46,46,46>>
\* "0"
S_price0 == <<48>>
\* "1000000000000000000"
S_price1e18 == <<49,48,48,48,48,48,48,48,48,48,48,48,48,48,48,48,48,48,48>>
\* "500000000000000000"
S_price5e17 == <<53,48,48,48,48,48,48,48,48,48,48,48,48,48,48,48,48,48>>
\* "p1 (e.g., NO)"
L_NO == <<112,49,32,40,101,46,103,46,44,32,78,79,41>>
\* "p2 (e.g., YES)"
L_YES == <<112,50,32,40,101,46,103,46,44,32,89,69,83,41>>
\* "p3 (e.g., 0.5/INVALID)"
L_INVALID == <<112,51,32,40,101,46,103,46,44,32,48,46,53,47,73,78,86,65,76,73,68,41>>
\* "Market Identifier: `"
S_marketPrefix == <<77,97,114,107,101,116,32,73,100,101,110,116,105,102,105,101,114,58,32,96>>
\* "`"
S_backtick == <<96>>
\* "ETH_MAINNET"
S_ETH_MAINNET == <<69,84,72,95,77,65,73,78,78,69,84>>
\* "POLYGON"
S_POLYGON == <<80,79,76,89,71,79,78>>
\* "MATIC"
S_MATIC == <<77,65,84,73,67>>
\* "https://polygonscan.com"
S_polygonscan == <<104,116,116,112,115,58,47,47,112,111,108,121,103,111,110,115,99,97,110,46,99,111,109>>
\* "https://etherscan.io"
S_etherscan == <<104,116,116,112,115,58,47,47,101,116,104,101,114,115,99,97,110,46,105,111>>
\* "/tx/"
S_tx == <<47,116,120,47>>
\* "None", "True", "False": str() of the JSON null and booleans.
S_None == <<78,111,110,101>>
S_True == <<84,114,117,101>>
S_False == <<70,97,108,115,101>>

\* ------------------------------------------------------- string primitives
\* U+FFFD, what errors='replace' puts in place of an undecodable byte.
ReplacementChar == 65533

\* str.isspace / regex \s on one character.
IsSpace(c) == c \in (9..13) \cup (28..32) \cup {133, 160}

\* str.lower / re.IGNORECASE on one ASCII character.
LowerChar(c) == IF c \in 65..90 THEN c + 32 ELSE c

UpperChar(c) == IF c \in 97..122 THEN c - 32 ELSE c

Lower(s) == [i \in 1..Len(s) |-> LowerChar(s[i])]

\* str.upper
Upper(s) == [i \in 1..Len(s) |-> UpperChar(s[i])]

\* s[from .. to] with Python's clamping of the upper end.
Slice(s, from, to) == SubSeq(s, from, IF to > Len(s) THEN Len(s) ELSE to)

\* s.startswith(p) at position i (1-based).
StartsAt(s, i, p) == /\ i + Len(p) - 1 <= Len(s)
                     /\ SubSeq(s, i, i + Len(p) - 1) = p

\* `p in s`
Contains(s, p) == \E i \in 1..(Len(s) + 1) : StartsAt(s, i, p)

Min(S) == CHOOSE x \in S : \A y \in S : x <= y

Max(S) == CHOOSE x \in S : \A y \in S : x >= y

\* s[first .. last] over a set of positions, empty when there is none.
Span(s, keep) == IF keep = {} THEN <<>> ELSE SubSeq(s, Min(keep), Max(keep))

\* str.strip(): from the first to the last non-space character.
Strip(s) == Span(s, {i \in 1..Len(s) : ~IsSpace(s[i])})

\* str.replace(c, ''): drop every occurrence of one character.
RECURSIVE RemoveChar(_, _)
RemoveChar(s, c) ==
  IF s = <<>> THEN <<>>
  ELSE IF Head(s) = c THEN RemoveChar(Tail(s), c)
       ELSE <<Head(s)>> \o RemoveChar(Tail(s), c)

\* ------------------------------------------------------------ hex_to_string
\* Python's None / a str, as one record shape.
None == [ok |-> FALSE, s |-> <<>>]

Some(s) == [ok |-> TRUE, s |-> s]

\* Value of one hex digit, 16 when the character is none.
HexDigit(c) == IF c \in 48..57 THEN c - 48
               ELSE IF c \in 97..102 THEN c - 87
               ELSE IF c \in 65..70 THEN c - 55
               ELSE 16

\* ASCII whitespace, which bytes.fromhex skips between byte pairs.
IsAsciiSpace(c) == c \in (9..13) \cup {32}

\* bytes.fromhex: pairs of hex digits, whitespace allowed between pairs only.
\* The bytes read, ending with -1 where the text stops being such pairs
\* (bytes.fromhex raises ValueError there).
RECURSIVE FromHex(_)
FromHex(s) ==
  IF s = <<>> THEN <<>>
  ELSE IF IsAsciiSpace(Head(s)) THEN FromHex(Tail(s))
  ELSE IF Len(s) < 2 \/ HexDigit(s[1]) = 16 \/ HexDigit(s[2]) = 16 THEN <<-1>>
  ELSE <<HexDigit(s[1]) * 16 + HexDigit(s[2])>> \o FromHex(SubSeq(s, 3, Len(s)))

\* bytes.decode('utf-8', errors='replace') for one- and two-byte sequences;
\* every byte that starts no such sequence becomes U+FFFD.
RECURSIVE DecodeUtf8(_)
DecodeUtf8(b) ==
  IF b = <<>> THEN <<>>
  ELSE IF b[1] < 128 THEN <<b[1]>> \o DecodeUtf8(Tail(b))
  ELSE IF b[1] \in 194..223 /\ Len(b) >= 2 /\ b[2] \in 128..191
       THEN <<(b[1] - 192) * 64 + (b[2] - 128)>> \o DecodeUtf8(SubSeq(b, 3, Len(b)))
  ELSE <<ReplacementChar>> \o DecodeUtf8(Tail(b))

hex_to_string(hex_str) ==
  LET h == IF StartsAt(hex_str, 1, S_0x) THEN SubSeq(hex_str, 3, Len(hex_str))
           ELSE hex_str
      byte_array == FromHex(h)
  IN IF \E i \in 1..Len(byte_array) : byte_array[i] = -1 THEN None
     ELSE Some(DecodeUtf8(byte_array))

\* --------------------------------------------- extract_title_from_ancillary
\* Number of whitespace characters starting at position i (regex \s*).
RECURSIVE SpaceRun(_, _)
SpaceRun(s, i) == IF i <= Len(s) /\ IsSpace(s[i]) THEN 1 + SpaceRun(s, i + 1) ELSE 0

\* The regex's closing alternatives at position k of s (low is s lowercased,
\* for re.IGNORECASE): ",\s*description:" | ", desc:" | "resolution_criteria:"
\* | "\n" | end of the text.
DelimiterAt(s, low, k) ==
  \/ k = Len(s) + 1
  \/ /\ k <= Len(s)
     /\ \/ s[k] = 10
        \/ StartsAt(low, k, S_desc)
        \/ StartsAt(low, k, S_resolution)
        \/ /\ s[k] = 44
           /\ StartsAt(low, k + 1 + SpaceRun(s, k + 1), S_description)

\* Lines 37-41: strip, drop NULs, strip, cut to 250 characters plus "...".
CleanTitle(group) == Strip(RemoveChar(Strip(group), 0))

Truncate(title) == IF Len(title) > TitleMaxLen
                   THEN SubSeq(title, 1, TitleMaxLen) \o S_ellipsis
                   ELSE title

\* group(1) of the match whose "title:" starts at i: whitespace is skipped
\* (\s*), then the lazy (.*?) runs to the first position where a closing
\* alternative matches.
TitleGroupFrom(s, low, j) ==
  SubSeq(s, j, Min({k \in j..(Len(s) + 1) : DelimiterAt(s, low, k)}) - 1)

TitleGroup(s, low, i) ==
  TitleGroupFrom(s, low, i + Len(S_title) + SpaceRun(s, i + Len(S_title)))

\* re.search: the leftmost "title:" (any case) starts the match, which always
\* completes, at the end of the text if nowhere sooner.
TitleMatch(s, low, starts) ==
  IF s = <<>> \/ starts = {} THEN None
  ELSE Some(Truncate(CleanTitle(TitleGroup(s, low, Min(starts)))))

TitleSearch(s, low) == TitleMatch(s, low, {i \in 1..Len(s) : StartsAt(low, i, S_title)})

extract_title_from_ancillary(ancillary_data_str) ==
  TitleSearch(ancillary_data_str, Lower(ancillary_data_str))

\* ------------------------------------------------------------- JSON values
\* A JSON value as json.loads gives it, or a key that is absent: t is the
\* type, s the text of a str, n the value of an int or bool (0/1) or the
\* length of a list or dict.
JV(t, s, n) == [t |-> t, s |-> s, n |-> n]

JAbsent == JV("absent", <<>>, 0)

JNull == JV("null", <<>>, 0)

JStr(s) == JV("str", s, 0)

JInt(n) == JV("int", <<>>, n)

JList(n) == JV("list", <<>>, n)

\* dict.get(key, default) for a key that may be absent.
GetOr(v, default) == IF v.t = "absent" THEN default ELSE v

\* dict.get(key): None when the key is absent.
Get(v) == GetOr(v, JNull)

\* Python truthiness.
Truthy(v) == CASE v.t = "str" -> v.s # <<>>
               [] v.t \in {"int", "bool", "list", "dict"} -> v.n # 0
               [] OTHER -> FALSE

\* Decimal digits (values 0..9) of a natural number, most significant first.
RECURSIVE NatDigits(_)
NatDigits(n) == IF n < 10 THEN <<n>> ELSE NatDigits(n \div 10) \o <<n % 10>>

\* str(v) for the scalar types and the empty containers.
PyStr(v) ==
  CASE v.t = "str" -> v.s
    [] v.t = "null" -> S_None
    [] v.t = "bool" -> IF v.n = 1 THEN S_True ELSE S_False
    [] v.t = "int" ->
         LET d == NatDigits(IF v.n < 0 THEN -v.n ELSE v.n)
             txt == [i \in 1..Len(d) |-> 48 + d[i]]
         IN IF v.n < 0 THEN <<45>> \o txt ELSE txt
    [] v.t = "list" -> <<91, 93>>
    [] v.t = "dict" -> <<123, 125>>

\* ------------------------------------------------------------------- int()
\* An integer of any size: sign and decimal digits without leading zeros
\* (zero is <<0>>, never negative).
BigInt(neg, mag) == [err |-> "none", neg |-> neg, mag |-> mag]

IntError(kind) == [err |-> kind, neg |-> FALSE, mag |-> <<0>>]

\* The characters int(x) takes as digits (ASCII; the inputs are ASCII).
DecimalDigits == 48..57

RECURSIVE DropLeadingZeros(_)
DropLeadingZeros(d) ==
  IF Len(d) > 1 /\ Head(d) = 0 THEN DropLeadingZeros(Tail(d)) ELSE d

\* The digits of an int literal body: digits with single underscores between
\* them; FALSE when the text is no such literal.
DigitGroupsOk(literal, digits) ==
  /\ literal # <<>>
  /\ \A i \in 1..Len(literal) : literal[i] \in digits \/ literal[i] = 95
  /\ literal[1] # 95 /\ literal[Len(literal)] # 95
  /\ \A i \in 1..(Len(literal) - 1) : ~(literal[i] = 95 /\ literal[i + 1] = 95)

\* The value of a decimal literal body (underscores dropped).
DecimalMagnitude(digits) ==
  DropLeadingZeros([i \in 1..Len(digits) |-> digits[i] - 48])

IsSigned(t) == t # <<>> /\ t[1] \in {43, 45}

Unsigned(t) == IF IsSigned(t) THEN Tail(t) ELSE t

IsMinus(t) == t # <<>> /\ t[1] = 45

\* int(text) of a str already stripped of surrounding whitespace.
ParseDecimal(t) ==
  IF DigitGroupsOk(Unsigned(t), DecimalDigits)
  THEN BigInt(IsMinus(t) /\ DecimalMagnitude(RemoveChar(Unsigned(t), 95)) # <<0>>,
              DecimalMagnitude(RemoveChar(Unsigned(t), 95)))
  ELSE IntError("ValueError")

\* int(x): TypeError for None and containers, ValueError for a str that is
\* not an optionally signed decimal literal (surrounding whitespace allowed).
PyInt(v) ==
  CASE v.t \in {"int", "bool"} ->
         BigInt(v.n < 0, NatDigits(IF v.n < 0 THEN -v.n ELSE v.n))
    [] v.t = "str" -> ParseDecimal(Strip(v.s))
    [] OTHER -> IntError("TypeError")

\* a < b for digit sequences without leading zeros.
RECURSIVE LexLess(_, _)
LexLess(a, b) ==
  IF a = <<>> THEN FALSE
  ELSE IF Head(a) # Head(b) THEN Head(a) < Head(b)
  ELSE LexLess(Tail(a), Tail(b))

MagLess(a, b) == Len(a) < Len(b) \/ (Len(a) = Len(b) /\ LexLess(a, b))

MagLeq(a, b) == a = b \/ MagLess(a, b)

\* Limits of datetime.fromtimestamp(n, timezone.utc) on CPython with a 64-bit
\* time_t: years 1..9999 render; beyond them ValueError ("year out of
\* range") while gmtime can still express the year, then OSError (EOVERFLOW),
\* and OverflowError once n does not fit time_t.
MaxDatetime == <<2,5,3,4,0,2,3,0,0,7,9,9>>
MinDatetime == <<6,2,1,3,5,5,9,6,8,0,0>>
MaxGmtime == <<6,7,7,6,8,0,3,6,1,9,1,6,7,6,7,9,9>>
MinGmtime == <<6,7,7,6,8,0,4,0,6,0,9,7,4,0,8,0,0>>
MaxTimeT == <<9,2,2,3,3,7,2,0,3,6,8,5,4,7,7,5,8,0,7>>
MinTimeT == <<9,2,2,3,3,7,2,0,3,6,8,5,4,7,7,5,8,0,8>>

\* -lo <= n <= hi, lo and hi given as magnitudes.
Within(n, hi, lo) == IF n.neg THEN MagLeq(n.mag, lo) ELSE MagLeq(n.mag, hi)

\* The exception datetime.fromtimestamp raises for n, "none" when it renders.
FromTimestampError(n) ==
  CASE Within(n, MaxDatetime, MinDatetime) -> "none"
    [] Within(n, MaxGmtime, MinGmtime) -> "ValueError"
    [] Within(n, MaxTimeT, MinTimeT) -> "OSError"
    [] OTHER -> "OverflowError"

\* An 'Event Timestamp' field value: the placeholder "N/A", or the rendering
\* '%Y-%m-%d %H:%M:%S UTC' of the epoch second (neg, mag).
TimeNA == [na |-> TRUE, neg |-> FALSE, mag |-> <<0>>]

TimeUtc(n) == [na |-> FALSE, neg |-> n.neg, mag |-> n.mag]

\* The exception of datetime.fromtimestamp(int(x), timezone.utc), given int(x).
ConversionError(n) == IF n.err # "none" THEN n.err ELSE FromTimestampError(n)

\* Lines 133-137: the try block, and what its `except (ValueError, TypeError)`
\* catches; any other exception leaves the block.
TryEventTime(n, e) ==
  CASE e = "none" -> [raised |-> "none", value |-> TimeUtc(n)]
    [] e \in {"ValueError", "TypeError"} -> [raised |-> "none", value |-> TimeNA]
    [] OTHER -> [raised |-> e, value |-> TimeNA]

\* Lines 131-137: the result is a field value, or the exception that escapes.
EventTime(event_timestamp_unix) ==
  IF ~Truthy(event_timestamp_unix) THEN [raised |-> "none", value |-> TimeNA]
  ELSE TryEventTime(PyInt(event_timestamp_unix),
                    ConversionError(PyInt(event_timestamp_unix)))

\* int(x, 16) of a str: optional sign, optional 0x prefix, hex digits with
\* single underscores between them; ok = FALSE is ValueError.
RECURSIVE HexValue(_, _)
HexValue(d, acc) ==
  IF d = <<>> THEN acc ELSE HexValue(Tail(d), acc * 16 + HexDigit(Head(d)))

\* The characters int(x, 16) takes as digits.
HexDigits == {c \in 48..102 : HexDigit(c) < 16}

Unprefixed(u) == IF StartsAt(Lower(u), 1, S_0x) THEN SubSeq(u, 3, Len(u)) ELSE u

ParseHex(t) ==
  IF DigitGroupsOk(Unprefixed(Unsigned(t)), HexDigits)
  THEN [ok |-> TRUE,
        n |-> IF IsMinus(t) THEN -HexValue(RemoveChar(Unprefixed(Unsigned(t)), 95), 0)
              ELSE HexValue(RemoveChar(Unprefixed(Unsigned(t)), 95), 0)]
  ELSE [ok |-> FALSE, n |-> 0]

PyIntHex(str) == ParseHex(Strip(str))

\* Line 124: the footer's block number, "N/A" (na) when blockNum is falsy;
\* raised names the exception of int(block_num_hex, 16).
BlockNum(block_num_hex) ==
  CASE ~Truthy(block_num_hex) -> [raised |-> "none", na |-> TRUE, n |-> 0]
    [] block_num_hex.t # "str" -> [raised |-> "TypeError", na |-> TRUE, n |-> 0]
    [] ~PyIntHex(block_num_hex.s).ok -> [raised |-> "ValueError", na |-> TRUE, n |-> 0]
    [] OTHER -> [raised |-> "none", na |-> FALSE, n |-> PyIntHex(block_num_hex.s).n]

\* A labelling that reads the price as a number: every spelling of zero is NO.
PriceLabel_Numeric(price_value_str) ==
  CASE Strip(price_value_str) # <<>>
       /\ (\A i \in 1..Len(Strip(price_value_str)) : Strip(price_value_str)[i] = 48) -> L_NO
    [] price_value_str = S_price1e18 -> L_YES
    [] price_value_str = S_price5e17 -> L_INVALID
    [] OTHER -> price_value_str

\* Lines 109-115: the label of the price's string form.
PriceLabel(price_value_str) ==
  CASE price_value_str = S_price0 -> L_NO
    [] price_value_str = S_price1e18 -> L_YES
    [] price_value_str = S_price5e17 -> L_INVALID
    [] OTHER -> price_value_str

\* Lines 107-115: the 'Disputed Outcome' of a proposedPrice.
DisputedAnswer(raw_proposed_price) == PriceLabel(PyStr(raw_proposed_price))

\* ------------------------------------------------- payloads and their items
\* One entry of decoded.params: a dict (or not), with or without its "name"
\* and "value" keys.
Param(name, value) ==
  [dict |-> TRUE, hasName |-> TRUE, hasValue |-> TRUE, name |-> name, value |-> value]

\* Line 89: {p["name"]: p["value"] for p in params}. "none" when the
\* comprehension completes, else the exception it raises.
EventParamsError(item) ==
  CASE item.params = "null" -> "TypeError"
    [] item.params = "absent" -> "none"
    [] \E i \in 1..Len(item.entries) : ~item.entries[i].dict -> "TypeError"
    [] \E i \in 1..Len(item.entries) :
         ~item.entries[i].hasName \/ ~item.entries[i].hasValue -> "KeyError"
    [] OTHER -> "none"

\* event_params.get(key): the value of the last entry named key (a dict
\* comprehension keeps the last write), absent when there is none.
LastValue(entries, at) == IF at = {} THEN JAbsent ELSE entries[Max(at)].value

EventParam(item, key) ==
  IF item.params # "list" THEN JAbsent
  ELSE LastValue(item.entries, {i \in 1..Len(item.entries) : item.entries[i].name = key})

\* Lines 98-99: the extracted title when there is one and it is not empty.
TitleOrNA(extracted_title) ==
  IF extracted_title.ok /\ extracted_title.s # <<>> THEN extracted_title.s ELSE S_NA

\* Lines 96-97: the title of the decoded text, when the decode gave any.
TitleOfText(ancillary_data_str) ==
  IF ancillary_data_str.ok /\ ancillary_data_str.s # <<>>
  THEN TitleOrNA(extract_title_from_ancillary(ancillary_data_str.s))
  ELSE S_NA

\* Lines 93-105: human_readable_title, "N/A" unless a title is extracted.
HumanReadableTitle(ancillary_data_hex) ==
  IF Truthy(ancillary_data_hex) /\ ancillary_data_hex # JStr(S_0x)
  THEN TitleOfText(hex_to_string(ancillary_data_hex.s))
  ELSE S_NA

\* Line 139.
ChooseTitle(human_readable_title, market_identifier_hex) ==
  IF human_readable_title # S_NA THEN human_readable_title
  ELSE S_marketPrefix \o PyStr(market_identifier_hex) \o S_backtick

\* Line 95: hex_to_string is entered with a value that is no str, whose
\* startswith raises AttributeError.
AncillaryRaises(ancillary_data_hex) ==
  /\ Truthy(ancillary_data_hex)
  /\ ancillary_data_hex # JStr(S_0x)
  /\ ancillary_data_hex.t # "str"

\* Lines 90-105 and 139: the display title, or the exception raised.
DisplayTitle(item) ==
  IF AncillaryRaises(GetOr(EventParam(item, "ancillaryData"), JStr(<<>>)))
  THEN [raised |-> "AttributeError", title |-> <<>>]
  ELSE [raised |-> "none",
        title |-> ChooseTitle(
                    HumanReadableTitle(GetOr(EventParam(item, "ancillaryData"), JStr(<<>>))),
                    GetOr(EventParam(item, "identifier"), JStr(S_NA)))]

\* Line 126: event.network, defaulted and uppercased.
NetworkOf(raw) ==
  IF raw.t = "str" THEN [raised |-> "none", name |-> Upper(raw.s)]
  ELSE [raised |-> "AttributeError", name |-> <<>>]

Network(payload) == NetworkOf(GetOr(payload.network, JStr(S_ETH_MAINNET)))

\* Line 127.
EtherscanBase(network) ==
  IF Contains(network, S_POLYGON) \/ Contains(network, S_MATIC)
  THEN S_polygonscan ELSE S_etherscan

\* Lines 122, 128 and 151: the Transaction field "[hash[:12]...](link)". The
\* hashes modelled are a str, null, an int or absent; null and an int cannot
\* be sliced (TypeError).
TransactionOf(tx_hash, etherscan_base) ==
  IF tx_hash.t # "str" THEN [raised |-> "TypeError", short |-> <<>>, link |-> <<>>]
  ELSE [raised |-> "none",
        short |-> Slice(tx_hash.s, 1, HashPrefixLen),
        link |-> IF tx_hash.s # S_NA THEN etherscan_base \o S_tx \o tx_hash.s
                 ELSE S_NA]

Transaction(item, etherscan_base) ==
  TransactionOf(GetOr(item.hash, JStr(S_NA)), etherscan_base)

\* First element of a sequence of exception names that is not "none".
RECURSIVE FirstRaised(_)
FirstRaised(errs) ==
  IF errs = <<>> THEN "none"
  ELSE IF Head(errs) # "none" THEN Head(errs) ELSE FirstRaised(Tail(errs))

NoEmbed == [title |-> <<>>, outcome |-> <<>>, disputer |-> <<>>, requester |-> <<>>,
            proposer |-> <<>>, eventTime |-> TimeNA, txShort |-> <<>>, txLink |-> <<>>,
            blockNA |-> TRUE, block |-> 0, network |-> <<>>]

Skip == [outcome |-> "skip", error |-> "none", embed |-> NoEmbed]

Fault(error) == [outcome |-> "fault", error |-> error, embed |-> NoEmbed]

\* Lines 141-157: the embed of a matched item once every field is computed,
\* unless one of the computations raised.
Assemble(item, raised, title, block, network, time, tx) ==
  IF raised # "none" THEN Fault(raised)
  ELSE [outcome |-> "dispatch", error |-> "none",
        embed |-> [title |-> title.title,
                   outcome |-> DisputedAnswer(Get(EventParam(item, "proposedPrice"))),
                   disputer |-> PyStr(GetOr(EventParam(item, "disputer"), JStr(S_NA))),
                   requester |-> PyStr(GetOr(EventParam(item, "requester"), JStr(S_NA))),
                   proposer |-> PyStr(GetOr(EventParam(item, "proposer"), JStr(S_NA))),
                   eventTime |-> time.value,
                   txShort |-> tx.short,
                   txLink |-> tx.link,
                   blockNA |-> block.na,
                   block |-> block.n,
                   network |-> network.name]]

\* Lines 87-157 for an item whose event name matched; the exception raised is
\* the first in the order the statements run.
Extract(item, title, block, network, time, tx) ==
  Assemble(item,
           FirstRaised(<<EventParamsError(item), title.raised, block.raised,
                         network.raised, time.raised, tx.raised>>),
           title, block, network, time, tx)

ProcessMatched(payload, item) ==
  Extract(item, DisplayTitle(item), BlockNum(Get(item.blockNum)), Network(payload),
          EventTime(Get(EventParam(item, "timestamp"))),
          Transaction(item, EtherscanBase(Network(payload).name)))

\* A comparison of the event name that ignores case.
NameMatches_AnyCase(event_name) ==
  event_name.t = "str" /\ Lower(event_name.s) = Lower(TARGET_DISPUTE_EVENT_NAME)

\* Line 86: the exact comparison with the target event name.
NameMatches(event_name) == event_name = JStr(TARGET_DISPUTE_EVENT_NAME)

\* Lines 78-164, the body of the loop for one activity item: "skip" (no
\* decoded data, or another event name), "dispatch" with the embed handed to
\* send_to_discord, or "fault" with the exception raised.
ProcessItem(payload, item) ==
  IF ~item.dict THEN Fault("AttributeError")
  ELSE IF item.log \in {"absent", "null", "empty"} THEN Skip
  ELSE IF item.log # "dict" THEN Fault("AttributeError")
  ELSE IF item.decoded \in {"absent", "null", "empty"} THEN Skip
  ELSE IF item.decoded # "dict" THEN Fault("AttributeError")
  ELSE IF ~NameMatches(Get(item.name)) THEN Skip
  ELSE ProcessMatched(payload, item)

\* --------------------------------------------------------------- input data
\* '0x9f8e7d6c5b4a39281706'
V_hash == <<48,120,57,102,56,101,55,100,54,99,53,98,52,97,51,57,50,56,49,55,48,54>>

\* '0x5945535f4f525f4e4f'
V_identifier == <<48,120,53,57,52,53,53,51,53,102,52,102,53,50,53,102,52,101,52,102>>

\* '0xd15p'
V_disputer == <<48,120,100,49,53,112>>

\* '0x4e9'
V_requester == <<48,120,52,101,57>>

\* '0x940'
V_proposer == <<48,120,57,52,48>>

\* '0x1f'
V_blockNum == <<48,120,49,102>>

\* '0xzz'
V_blockBad == <<48,120,122,122>>

\* 'MATIC_MAINNET'
V_MATIC_MAINNET == <<77,65,84,73,67,95,77,65,73,78,78,69,84>>

\* 'polygon-mainnet'
V_polygon == <<112,111,108,121,103,111,110,45,109,97,105,110,110,101,116>>

\* 'ProposePrice'
V_ProposePrice == <<80,114,111,112,111,115,101,80,114,105,99,101>>

\* 'disputeprice'
V_disputeprice == <<100,105,115,112,117,116,101,112,114,105,99,101>>

\* 'DISPUTEPRICE'
V_DISPUTEPRICE == <<68,73,83,80,85,84,69,80,82,73,67,69>>

\* 'title: Will X happen?, description: foo'
X_title == <<116,105,116,108,101,58,32,87,105,108,108,32,88,32,104,97,112,112,101,110,63,44,32,100,101,115,99,114,105,112,116,105,111,110,58,32,102,111,111>>

\* 'Will X happen?'
X_WillXhappen == <<87,105,108,108,32,88,32,104,97,112,112,101,110,63>>

\* 'q: 1\nTITLE:  Up or down? \nresolution_criteria: x'
X_titleUpper == <<113,58,32,49,10,84,73,84,76,69,58,32,32,85,112,32,111,114,32,100,111,119,110,63,32,10,114,101,115,111,108,117,116,105,111,110,95,99,114,105,116,101,114,105,97,58,32,120>>

\* 'Up or down?'
X_UpOrDown == <<85,112,32,111,114,32,100,111,119,110,63>>

\* 'title: N/A, desc: none'
X_titleNA == <<116,105,116,108,101,58,32,78,47,65,44,32,100,101,115,99,58,32,110,111,110,101>>

\* 'title: , description: d'
X_titleEmpty == <<116,105,116,108,101,58,32,44,32,100,101,115,99,114,105,112,116,105,111,110,58,32,100>>

\* 'q: ab'
X_noTitle == <<113,58,32,97,98>>

\* '0xag'
A_malformed == <<48,120,97,103>>

\* '0x616'
A_oddLength == <<48,120,54,49,54>>

\* '0x80'
A_badUtf8 == <<48,120,56,48>>

\* '00'
P_00 == <<48,48>>

\* '1e18'
P_1e18 == <<49,101,49,56>>

\* '777'
P_777 == <<55,55,55>>

\* '0.0'
P_0dot0 == <<48,46,48>>

\* ' 0'
P_space0 == <<32,48>>

\* '1700000000'
T_valid == <<49,55,48,48,48,48,48,48,48,48>>

\* 'abc'
T_text == <<97,98,99>>

\* '1000000000000': year 33658, past datetime.MAXYEAR
T_year == <<49,48,48,48,48,48,48,48,48,48,48,48,48>>

\* '100000000000000000': past what gmtime expresses
T_gmtime == <<49,48,48,48,48,48,48,48,48,48,48,48,48,48,48,48,48,48>>

\* '99999999999999999999': past a 64-bit time_t
T_timet == <<57,57,57,57,57,57,57,57,57,57,57,57,57,57,57,57,57,57,57,57>>

\* "0123456789abcdef"
HexChars == <<48,49,50,51,52,53,54,55,56,57,97,98,99,100,101,102>>

\* The "0x..." hex string that encodes an ASCII text, as the chain writes
\* ancillaryData.
HexOf(text) ==
  S_0x \o [i \in 1..(2 * Len(text)) |->
             IF i % 2 = 1 THEN HexChars[(text[(i + 1) \div 2] \div 16) + 1]
             ELSE HexChars[(text[i \div 2] % 16) + 1]]

\* A well-formed DisputePrice activity item.
BaseItem ==
  [dict |-> TRUE, hash |-> JStr(V_hash), log |-> "dict", decoded |-> "dict",
   name |-> JStr(TARGET_DISPUTE_EVENT_NAME), params |-> "list",
   entries |-> <<Param("identifier", JStr(V_identifier)),
                 Param("ancillaryData", JStr(HexOf(X_title))),
                 Param("proposedPrice", JStr(S_price0)),
                 Param("disputer", JStr(V_disputer)),
                 Param("requester", JStr(V_requester)),
                 Param("proposer", JStr(V_proposer)),
                 Param("timestamp", JStr(T_valid))>>,
   blockNum |-> JStr(V_blockNum)]

\* item with param key set to v, or without the param when v is absent.
WithParam(item, key, v) ==
  [item EXCEPT !.entries =
     IF v = JAbsent THEN SelectSeq(@, LAMBDA e : e.name # key)
     ELSE [i \in 1..Len(@) |-> IF @[i].name = key THEN [@[i] EXCEPT !.value = v]
                                ELSE @[i]]]

AncillaryValues ==
  <<JAbsent, JStr(<<>>), JStr(S_0x), JStr(A_malformed), JStr(A_oddLength),
    JStr(A_badUtf8), JStr(HexOf(X_noTitle)), JStr(HexOf(X_titleEmpty)),
    JStr(HexOf(X_titleNA)), JStr(HexOf(X_title)), JStr(HexOf(X_titleUpper)), JList(1)>>

PriceValues ==
  <<JStr(S_price0), JStr(S_price1e18), JStr(S_price5e17), JStr(P_00), JStr(P_1e18),
    JStr(P_777), JStr(P_0dot0), JStr(P_space0), JInt(0), JInt(777), JAbsent>>

TimestampValues ==
  <<JAbsent, JStr(<<>>), JInt(0), JStr(T_valid), JInt(1700000000), JStr(T_text),
    JList(1), JStr(T_year), JStr(T_gmtime), JStr(T_timet)>>

FieldItem(a, p, t) ==
  WithParam(WithParam(WithParam(BaseItem, "ancillaryData", AncillaryValues[a]),
                      "proposedPrice", PriceValues[p]),
            "timestamp", TimestampValues[t])

\* Items that differ from BaseItem in the three decoded fields: every
\* combination of the values above.
FieldItems ==
  [n \in 1..(Len(AncillaryValues) * Len(PriceValues) * Len(TimestampValues)) |->
     FieldItem(((n - 1) % Len(AncillaryValues)) + 1,
               (((n - 1) \div Len(AncillaryValues)) % Len(PriceValues)) + 1,
               ((n - 1) \div (Len(AncillaryValues) * Len(PriceValues))) + 1)]

\* Items that are skipped: no log, an undecoded log, another event name.
SkippedItems ==
  <<[BaseItem EXCEPT !.log = "absent"],
    [BaseItem EXCEPT !.decoded = "absent"],
    [BaseItem EXCEPT !.name = JStr(V_ProposePrice)],
    [BaseItem EXCEPT !.name = JStr(V_disputeprice)],
    [BaseItem EXCEPT !.name = JAbsent]>>

\* Items whose processing raises.
FaultingItems ==
  <<[BaseItem EXCEPT !.entries = <<[Param("x", JNull) EXCEPT !.hasName = FALSE]>> \o @],
    [BaseItem EXCEPT !.blockNum = JStr(V_blockBad)],
    [BaseItem EXCEPT !.hash = JInt(7)],
    WithParam(BaseItem, "ancillaryData", JList(1)),
    WithParam(BaseItem, "timestamp", JStr(T_timet))>>

\* Items of the payloads that hold several.
SiblingItems ==
  <<BaseItem, WithParam(BaseItem, "proposedPrice", JStr(P_777)),
    WithParam(BaseItem, "ancillaryData", JStr(A_malformed))>>
  \o SkippedItems \o FaultingItems

\* Other single items: shapes of the item, its log, its hash and blockNum.
ShapeItems ==
  <<[BaseItem EXCEPT !.dict = FALSE],
    [BaseItem EXCEPT !.log = "str"],
    [BaseItem EXCEPT !.log = "empty"],
    [BaseItem EXCEPT !.decoded = "str"],
    [BaseItem EXCEPT !.name = JStr(V_DISPUTEPRICE)],
    [BaseItem EXCEPT !.params = "null"],
    [BaseItem EXCEPT !.params = "absent"],
    [BaseItem EXCEPT !.hash = JAbsent],
    [BaseItem EXCEPT !.hash = JNull],
    [BaseItem EXCEPT !.blockNum = JAbsent],
    [BaseItem EXCEPT !.blockNum = JInt(31)],
    WithParam(BaseItem, "identifier", JAbsent),
    [BaseItem EXCEPT !.entries = @ \o <<Param("proposedPrice", JStr(S_price1e18))>>]>>

RECURSIVE Power(_, _)
Power(b, e) == IF e = 0 THEN 1 ELSE b * Power(b, e - 1)

\* Every list of k elements of the sequence S, as a sequence.
ListsOf(S, k) ==
  [n \in 1..Power(Len(S), k) |->
     [j \in 1..k |-> S[(((n - 1) \div Power(Len(S), j - 1)) % Len(S)) + 1]]]

\* Every list of 1..n elements of S.
RECURSIVE ListsUpTo(_, _)
ListsUpTo(S, n) == IF n = 0 THEN <<>> ELSE ListsUpTo(S, n - 1) \o ListsOf(S, n)

\* A request body: absent, not parseable as JSON, or JSON with the type of
\* its top-level value; for a dict, the shape of event and event.activity.
Body(kind, top, event, activity, items, network) ==
  [kind |-> kind, top |-> top, event |-> event, activity |-> activity,
   items |-> items, network |-> network]

Payload(items, network) == Body("json", "dict", "dict", "list", items, network)

\* A body without an event: kind and top-level type only.
Bare(kind, top) == Body(kind, top, "absent", "absent", <<>>, JAbsent)

\* Bodies that are not a non-empty JSON value.
EmptyBodies ==
  <<Bare("absent", "null"), Bare("unparseable", "null"), Bare("json", "null"),
    Bare("json", "false"), Bare("json", "zero"), Bare("json", "emptystr"),
    Bare("json", "emptylist"), Bare("json", "emptydict")>>

\* Non-empty JSON that has no event.activity list of items.
ShapeBodies ==
  <<Bare("json", "list"), Bare("json", "str"), Bare("json", "number"),
    Bare("json", "true"), Bare("json", "dict"),
    Body("json", "dict", "null", "absent", <<>>, JAbsent),
    Body("json", "dict", "empty", "absent", <<>>, JAbsent),
    Body("json", "dict", "str", "absent", <<>>, JAbsent),
    Body("json", "dict", "dict", "absent", <<>>, JStr(S_ETH_MAINNET)),
    Body("json", "dict", "dict", "null", <<>>, JStr(S_ETH_MAINNET)),
    Body("json", "dict", "dict", "empty", <<>>, JAbsent),
    Body("json", "dict", "dict", "number", <<>>, JStr(S_ETH_MAINNET))>>

NetworkValues ==
  <<JAbsent, JStr(V_MATIC_MAINNET), JStr(V_polygon), JNull, JInt(1)>>

\* Payloads of BaseItem alone under each network, then twice under each.
NetworkBodies ==
  [n \in 1..(2 * Len(NetworkValues)) |->
     IF n <= Len(NetworkValues) THEN Payload(<<BaseItem>>, NetworkValues[n])
     ELSE Payload(<<BaseItem, BaseItem>>, NetworkValues[n - Len(NetworkValues)])]

OnMainnet(lists) == [n \in 1..Len(lists) |-> Payload(lists[n], JStr(S_ETH_MAINNET))]

\* The bodies of the sequential specification.
SeqBodies ==
  EmptyBodies \o ShapeBodies \o NetworkBodies
  \o OnMainnet(ListsOf(FieldItems \o ShapeItems, 1))
  \o OnMainnet(ListsUpTo(SiblingItems, MaxItems))

\* The bodies of the concurrent specification: one that request.json
\* refuses, one without an event, one that is no dict, one dispatched, one
\* that dispatches its first item and raises on its second, one that skips
\* its first item and dispatches its second.
ConcBodies ==
  <<Bare("unparseable", "null"),
    Bare("json", "dict"),
    Bare("json", "list"),
    Payload(<<BaseItem>>, JStr(S_ETH_MAINNET)),
    Payload(<<BaseItem, [BaseItem EXCEPT !.blockNum = JStr(V_blockBad)]>>,
            JStr(S_ETH_MAINNET)),
    Payload(<<[BaseItem EXCEPT !.name = JStr(V_ProposePrice)], BaseItem>>,
            JStr(S_ETH_MAINNET))>>

\* Every body; a request holds the position of its body in this table.
BodyTable == SeqBodies \o ConcBodies

SeqBodyIds == 1..Len(SeqBodies)

ConcBodyIds == (Len(SeqBodies) + 1)..Len(BodyTable)

\* What the loop body does with each item of each body, computed once and
\* held as sequences: ProcessItem reads nothing but the payload.
ItemResults ==
  [b \in 1..Len(BodyTable) |->
     [i \in 1..Len(BodyTable[b].items) |->
        ProcessItem(BodyTable[b], BodyTable[b].items[i])] \o <<>>] \o <<>>

\* ------------------------------------------------------------------- state
VARIABLES
  urlConfigured,  \* DISCORD_WEBHOOK_URL is set and is not the placeholder
  gate,           \* per request: position of alchemy_webhook_receiver
  body,           \* per request: its body's place in BodyTable, 0 before it arrives
  jsonRaised,     \* per request: request.json raised
  resp,           \* per request: HTTP status returned, 0 before the return
  spawned,        \* per request: number of threads started for it
  task,           \* per request: position of its process_webhook_payload thread
  calls           \* per request: the calls of send_to_discord, in order

vars == <<urlConfigured, gate, body, jsonRaised, resp, spawned, task, calls>>

Reqs == 1..MaxReq

NoTask == [pc |-> "none", idx |-> 0, fault |-> "none"]

\* What the POST to Discord can come to: a 2xx response, a timeout, a non-2xx
\* response (raise_for_status), a connection failure.
PostOutcomes == {"ok", "timeout", "http_error", "connection_error"}

\* ----------------------------------------------------------- send_to_discord
\* A notifier whose handler misses the timeout, which then leaves the function.
send_to_discord_TimeoutEscapes(configured, has_data, outcome) ==
  IF ~configured THEN [posted |-> FALSE, ret |-> FALSE, raised |-> "none"]
  ELSE IF ~has_data THEN [posted |-> FALSE, ret |-> FALSE, raised |-> "none"]
  ELSE [posted |-> TRUE, ret |-> outcome = "ok",
        raised |-> IF outcome = "timeout" THEN "Timeout" ELSE "none"]

\* Lines 44-70. posted: requests.post was called; ret: the return value;
\* raised: the exception that leaves the function ("none": every
\* RequestException, Timeout included, is caught).
send_to_discord(configured, has_data, outcome) ==
  IF ~configured THEN [posted |-> FALSE, ret |-> FALSE, raised |-> "none"]
  ELSE IF ~has_data THEN [posted |-> FALSE, ret |-> FALSE, raised |-> "none"]
  ELSE [posted |-> TRUE, ret |-> outcome = "ok", raised |-> "none"]

Call(kind, item, embed, sent) ==
  [kind |-> kind, item |-> item, embed |-> embed, posted |-> sent.posted, ret |-> sent.ret]

\* ------------------------------------------------- alchemy_webhook_receiver
\* request.json on a body: "value" (the parsed JSON), "none" (None: the body
\* is not declared as JSON and Flask < 2.1 reads it as no JSON) or "raise"
\* (BadRequest on a parse failure, UnsupportedMediaType from Flask 2.1 on).
RequestJson(b) == IF b.kind = "json" THEN {"value"} ELSE {"none", "raise"}

\* A gate that tests `payload is None` in place of `not payload`.
PayloadEmpty_IsNone(b, parsed) == parsed = "none" \/ b.top = "null"

\* Line 181: `not payload`.
PayloadEmpty(b, parsed) ==
  \/ parsed = "none"
  \/ b.top \in {"null", "false", "zero", "emptystr", "emptylist", "emptydict"}

\* Lines 178-188 and 192-195: a request arrives with one of the bodies; it
\* is answered at once (400 for an empty payload, 500 when request.json
\* raised) or a thread is started for it.
Gate_Receive(r, bodies) ==
  /\ gate[r] = "idle"
  /\ \E b \in bodies : \E parsed \in RequestJson(BodyTable[b]) :
       /\ body' = [body EXCEPT ![r] = b]
       /\ jsonRaised' = [jsonRaised EXCEPT ![r] = (parsed = "raise")]
       /\ IF parsed = "raise"
          THEN /\ resp' = [resp EXCEPT ![r] = 500]
               /\ gate' = [gate EXCEPT ![r] = "returned"]
               /\ UNCHANGED <<spawned, task>>
          ELSE IF PayloadEmpty(BodyTable[b], parsed)
          THEN /\ resp' = [resp EXCEPT ![r] = 400]
               /\ gate' = [gate EXCEPT ![r] = "returned"]
               /\ UNCHANGED <<spawned, task>>
          ELSE /\ spawned' = [spawned EXCEPT ![r] = @ + 1]
               /\ task' = [task EXCEPT ![r] = [pc |-> "start", idx |-> 0, fault |-> "none"]]
               /\ gate' = [gate EXCEPT ![r] = "started"]
               /\ UNCHANGED resp
  /\ UNCHANGED <<urlConfigured, calls>>

\* A gate that joins the thread before it answers.
Gate_Return_Join(r) ==
  /\ gate[r] = "started"
  /\ task[r].pc = "done"
  /\ resp' = [resp EXCEPT ![r] = 200]
  /\ gate' = [gate EXCEPT ![r] = "returned"]
  /\ UNCHANGED <<urlConfigured, body, jsonRaised, spawned, task, calls>>

\* Lines 190-191: the 200 response, once the thread is started.
Gate_Return(r) ==
  /\ gate[r] = "started"
  /\ resp' = [resp EXCEPT ![r] = 200]
  /\ gate' = [gate EXCEPT ![r] = "returned"]
  /\ UNCHANGED <<urlConfigured, body, jsonRaised, spawned, task, calls>>

\* -------------------------------------------------- process_webhook_payload
\* Line 76 and the head of the loop at line 77: "loop" when event.activity is
\* a non-empty list, "passthrough" for the else branch, else the exception.
Dispatch(b) ==
  CASE b.top # "dict" -> "AttributeError"
    [] b.event \in {"absent", "null", "empty"} -> "passthrough"
    [] b.event # "dict" -> "AttributeError"
    [] b.activity \in {"absent", "null", "empty"} -> "passthrough"
    [] b.activity # "list" -> "TypeError"
    [] OTHER -> "loop"

\* A thread that an exception kills where it stands: it never reaches its end.
Faulted_Uncaught(error) == [pc |-> "crashed", idx |-> 0, fault |-> error]

\* The `except Exception` of lines 170-171: the thread ends.
Faulted(error) == [pc |-> "done", idx |-> 0, fault |-> error]

\* Lines 73-77.
Task_Begin(r) ==
  /\ task[r].pc = "start"
  /\ LET d == Dispatch(BodyTable[body[r]])
     IN task' = [task EXCEPT ![r] =
                   CASE d = "loop" -> [pc |-> "loop", idx |-> 1, fault |-> "none"]
                     [] d = "passthrough" -> [pc |-> "passthrough", idx |-> 0, fault |-> "none"]
                     [] OTHER -> [Faulted(d) EXCEPT !.idx = 0]]
  /\ UNCHANGED <<urlConfigured, gate, body, jsonRaised, resp, spawned, calls>>

\* An else branch that sends its message again when the first send fails.
Task_PassThrough_Retry(r) ==
  /\ task[r].pc = "passthrough"
  /\ \E outcome \in PostOutcomes :
       LET sent == send_to_discord(urlConfigured, TRUE, outcome)
       IN /\ calls' = [calls EXCEPT ![r] =
                         IF sent.ret THEN Append(@, Call("message", 0, NoEmbed, sent))
                         ELSE Append(Append(@, Call("message", 0, NoEmbed, sent)),
                                     Call("message", 0, NoEmbed, sent))]
          /\ task' = [task EXCEPT ![r] = [@ EXCEPT !.pc = "done"]]
  /\ UNCHANGED <<urlConfigured, gate, body, jsonRaised, resp, spawned>>

\* Lines 165-168: the informational message for an unexpected structure.
Task_PassThrough(r) ==
  /\ task[r].pc = "passthrough"
  /\ \E outcome \in PostOutcomes :
       LET sent == send_to_discord(urlConfigured, TRUE, outcome)
       IN /\ calls' = [calls EXCEPT ![r] = Append(@, Call("message", 0, NoEmbed, sent))]
          /\ task' = [task EXCEPT ![r] =
                        IF sent.raised = "none" THEN [@ EXCEPT !.pc = "done"]
                        ELSE Faulted(sent.raised)]
  /\ UNCHANGED <<urlConfigured, gate, body, jsonRaised, resp, spawned>>

\* The position after item idx: the next item, or the end of the loop.
Advance(t, n) == IF t.idx >= n THEN [t EXCEPT !.pc = "done", !.idx = n + 1]
                 ELSE [t EXCEPT !.idx = @ + 1]

\* The thread and its calls after the item at position i of n, given what
\* the item came to and what send_to_discord did with its embed.
AfterItem(t, cs, i, n, res, sent) ==
  CASE res.outcome = "skip" -> [task |-> Advance(t, n), calls |-> cs]
    [] res.outcome = "fault" ->
         [task |-> [Faulted(res.error) EXCEPT !.idx = i], calls |-> cs]
    [] OTHER ->
         [task |-> IF sent.raised = "none" THEN Advance(t, n)
                   ELSE [Faulted(sent.raised) EXCEPT !.idx = i],
          calls |-> Append(cs, Call("embed", i, res.embed, sent))]

\* Lines 77-164 for the item at task[r].idx: it is skipped, or its embed is
\* sent and the loop goes on whatever send_to_discord returns, or an
\* exception leaves the loop for the handler of line 170.
Task_Item(r) ==
  /\ task[r].pc = "loop"
  /\ LET res == ItemResults[body[r]][task[r].idx]
     IN \E outcome \in PostOutcomes :
          LET after == AfterItem(task[r], calls[r], task[r].idx,
                                 Len(BodyTable[body[r]].items),
                                 res, send_to_discord(urlConfigured, TRUE, outcome))
          IN /\ task' = [task EXCEPT ![r] = after.task]
             /\ calls' = [calls EXCEPT ![r] = after.calls]
  /\ UNCHANGED <<urlConfigured, gate, body, jsonRaised, resp, spawned>>

\* ----------------------------------------------------------- specifications
Init ==
  /\ urlConfigured \in BOOLEAN
  /\ gate = [r \in Reqs |-> "idle"]
  /\ body = [r \in Reqs |-> 0]
  /\ jsonRaised = [r \in Reqs |-> FALSE]
  /\ resp = [r \in Reqs |-> 0]
  /\ spawned = [r \in Reqs |-> 0]
  /\ task = [r \in Reqs |-> NoTask]
  /\ calls = [r \in Reqs |-> <<>>]

\* One request, every body: the decode of a payload from arrival to the end
\* of its thread.
Next ==
  \/ Gate_Receive(1, SeqBodyIds)
  \/ Gate_Return(1)
  \/ Task_Begin(1)
  \/ Task_PassThrough(1)
  \/ Task_Item(1)

Spec == Init /\ [][Next]_vars

\* MaxReq requests in flight at once, their threads interleaved.
NextConc ==
  \E r \in Reqs :
    \/ Gate_Receive(r, ConcBodyIds)
    \/ Gate_Return(r)
    \/ Task_Begin(r)
    \/ Task_PassThrough(r)
    \/ Task_Item(r)

SpecConc == Init /\ [][NextConc]_vars

\* Every started thread and every handler is scheduled: the operating system
\* runs each runnable thread, and the POST is bounded by its 10 s timeout.
FairSpecConc ==
  /\ SpecConc
  /\ \A r \in Reqs : /\ WF_vars(Gate_Return(r))
                     /\ WF_vars(Task_Begin(r))
                     /\ WF_vars(Task_PassThrough(r))
                     /\ WF_vars(Task_Item(r))

\* ------------------------------------------------------------------ claims
\* The body a request arrived with.
B(r) == BodyTable[body[r]]

Arrived(r) == body[r] # 0

TaskDone(r) == task[r].pc = "done"

TaskRunning(r) == task[r].pc \in {"start", "loop", "passthrough"}

\* Positions in calls[r] of the embeds sent for item i.
EmbedsFor(r, i) ==
  {k \in 1..Len(calls[r]) : calls[r][k].kind = "embed" /\ calls[r][k].item = i}

\* The items the loop has left behind: all of them once it ended normally,
\* those before the current one otherwise.
Passed(r) ==
  IF ~Arrived(r) \/ task[r].pc \notin {"loop", "done"} THEN {}
  ELSE {i \in 1..Len(B(r).items) : i < task[r].idx}

\* The request body is absent, unparseable, or an empty JSON value.
EmptyBody(r) ==
  /\ Arrived(r)
  /\ \/ B(r).kind \in {"absent", "unparseable"}
     \/ B(r).top \in {"null", "false", "zero", "emptystr", "emptylist", "emptydict"}

\* The request body is a non-empty JSON value, which the gate accepts.
Accepted(r) == Arrived(r) /\ ~EmptyBody(r)

\* C1: a fault raised while one activity item is processed never aborts the
\* items that follow it: once the thread has ended, every item that is
\* dispatched when processed on its own has had its embed sent.
C1_SiblingsSurviveFault ==
  \A r \in Reqs :
    (TaskDone(r) /\ Dispatch(B(r)) = "loop") =>
      \A j \in 1..Len(B(r).items) :
        ItemResults[body[r]][j].outcome = "dispatch" => EmbedsFor(r, j) # {}

C3_OneTaskImmediate200 ==
  \A r \in Reqs :
    Accepted(r) =>
      /\ spawned[r] = 1
      /\ task[r] # NoTask
      /\ gate[r] \in {"started", "returned"}
      /\ gate[r] = "started" => (resp[r] = 0 /\ ENABLED Gate_Return(r))
      /\ gate[r] = "returned" => resp[r] = 200

\* The 200 has been returned for a payload whose thread has not yet begun
\* its first item.
C3_Witness ==
  \E r \in Reqs :
    /\ Accepted(r) /\ resp[r] = 200 /\ spawned[r] = 1
    /\ task[r].pc = "start" /\ calls[r] = <<>>

\* The payload is a non-empty JSON value without an event, or without a
\* non-empty event.activity.
NoActivity(r) ==
  /\ Accepted(r)
  /\ \/ B(r).top # "dict"
     \/ B(r).event # "dict"
     \/ B(r).activity # "list"
     \/ B(r).items = <<>>

\* C4: a non-empty payload that lacks event or event.activity (an empty
\* activity list included) has no embed sent, at most one pass-through
\* message sent, and its request is answered 200.
C4_NoActivityNoEmbed ==
  \A r \in Reqs :
    NoActivity(r) =>
      /\ \A k \in 1..Len(calls[r]) : calls[r][k].kind = "message"
      /\ Len(calls[r]) <= 1
      /\ gate[r] = "returned" => resp[r] = 200
      /\ spawned[r] = 1

\* A payload with an empty activity list has ended its thread with the one
\* pass-through message, which Discord refused, and its request got the 200.
C4_Witness ==
  \E r \in Reqs :
    /\ NoActivity(r) /\ B(r).activity = "empty"
    /\ TaskDone(r) /\ resp[r] = 200
    /\ Len(calls[r]) = 1 /\ calls[r][1].kind = "message" /\ ~calls[r][1].ret
    /\ urlConfigured

\* The item's log.decoded.name is the string 'DisputePrice', letter for letter.
IsTargetEvent(item) ==
  /\ item.dict /\ item.log = "dict" /\ item.decoded = "dict"
  /\ item.name = JStr(TARGET_DISPUTE_EVENT_NAME)

\* The item has no log, a log without decoded data, or another event name.
IsOtherEvent(item) ==
  /\ item.dict
  /\ \/ item.log \in {"absent", "null", "empty"}
     \/ item.log = "dict" /\ item.decoded \in {"absent", "null", "empty"}
     \/ item.log = "dict" /\ item.decoded = "dict"
        /\ item.name # JStr(TARGET_DISPUTE_EVENT_NAME)

\* C5: an embed is sent for an item only if its log.decoded.name is exactly
\* 'DisputePrice'; an item with another name, no log or no decoded data has
\* no notifier call, raises nothing, and the loop goes on to the item after it.
C5_OnlyTargetEventDispatched ==
  \A r \in Reqs :
    Arrived(r) =>
      /\ \A k \in 1..Len(calls[r]) :
           calls[r][k].kind = "embed" => IsTargetEvent(B(r).items[calls[r][k].item])
      /\ \A i \in 1..Len(B(r).items) :
           IsOtherEvent(B(r).items[i]) =>
             /\ EmbedsFor(r, i) = {}
             /\ ~(task[r].fault # "none" /\ task[r].idx = i)
             /\ (TaskDone(r) /\ task[r].fault = "none") => i \in Passed(r)

\* A payload of an item named 'disputeprice' and a DisputePrice item has run
\* to its end: the first was passed without a call, the second was sent.
C5_Witness ==
  \E r \in Reqs :
    /\ Arrived(r) /\ Len(B(r).items) = 2
    /\ B(r).items[1].name = JStr(V_disputeprice)
    /\ IsOtherEvent(B(r).items[1]) /\ IsTargetEvent(B(r).items[2])
    /\ TaskDone(r) /\ task[r].fault = "none"
    /\ EmbedsFor(r, 1) = {} /\ EmbedsFor(r, 2) = {1}

\* The 'Disputed Outcome' that the exact comparison gives a raw proposedPrice.
ExactOutcome(raw) ==
  CASE raw = JStr(S_price0) -> L_NO
    [] raw = JStr(S_price1e18) -> L_YES
    [] raw = JStr(S_price5e17) -> L_INVALID
    [] raw.t = "str" -> raw.s
    [] raw = JInt(0) -> L_NO
    [] OTHER -> PyStr(Get(raw))

\* C7: the 'Disputed Outcome' of every embed sent comes from proposedPrice by
\* exact string match: '0' is the NO label, '1000000000000000000' the YES
\* label, '500000000000000000' the INVALID label, and any other value is its
\* own string form, unchanged ('00', '1e18', '0.0' and ' 0' are not mapped).
C7_ExactPriceMapping ==
  \A r \in Reqs :
    \A k \in 1..Len(calls[r]) :
      calls[r][k].kind = "embed" =>
        calls[r][k].embed.outcome =
          ExactOutcome(EventParam(B(r).items[calls[r][k].item], "proposedPrice"))

\* An embed was sent for a proposedPrice of '00', with '00' as its outcome.
C7_Witness ==
  \E r \in Reqs :
    \E k \in 1..Len(calls[r]) :
      /\ calls[r][k].kind = "embed"
      /\ EventParam(B(r).items[calls[r][k].item], "proposedPrice") = JStr(P_00)
      /\ calls[r][k].embed.outcome = P_00

\* C9: a delivery failure of the notifier (timeout, non-2xx response, network
\* failure, unconfigured URL) is a False return and never an exception in the
\* thread; each item's embed is sent at most once; and the items after a
\* failed send are still processed and sent, in activity order.
C9_DeliveryFailureContained ==
  \A r \in Reqs :
    Arrived(r) =>
      /\ \A k \in 1..Len(calls[r]) :
           /\ ~urlConfigured => (~calls[r][k].posted /\ ~calls[r][k].ret)
           /\ \A m \in 1..Len(calls[r]) :
                (k < m /\ calls[r][k].kind = "embed") =>
                  calls[r][k].item < calls[r][m].item
      /\ \A i \in Passed(r) :
           Cardinality(EmbedsFor(r, i)) =
             IF ItemResults[body[r]][i].outcome = "dispatch" THEN 1 ELSE 0
      /\ task[r].fault # "none" =>
           /\ Dispatch(B(r)) = "loop" => task[r].idx >= 1
           /\ task[r].idx >= 1 => ItemResults[body[r]][task[r].idx].outcome = "fault"
           /\ task[r].idx = 0 => Dispatch(B(r)) \in {"AttributeError", "TypeError"}

\* A payload of two DisputePrice items has run to its end without a fault:
\* the send of the first timed out or was refused, the second was sent after it.
C9_Witness ==
  \E r \in Reqs :
    /\ Arrived(r) /\ Len(B(r).items) = 2 /\ urlConfigured
    /\ TaskDone(r) /\ task[r].fault = "none"
    /\ Len(calls[r]) = 2
    /\ calls[r][1].item = 1 /\ calls[r][1].posted /\ ~calls[r][1].ret
    /\ calls[r][2].item = 2 /\ calls[r][2].ret

\* The title found in a decoded ancillary text, empty when there is none.
TitleIn(text) ==
  IF ~text.ok \/ text.s = <<>> THEN <<>>
  ELSE IF extract_title_from_ancillary(text.s).ok
  THEN extract_title_from_ancillary(text.s).s
  ELSE <<>>

\* The title extracted from a raw ancillaryData param, empty when the param
\* is absent, empty, '0x', malformed hex, or text without a title value.
ExtractedTitle(anc) ==
  IF anc.t # "str" \/ anc.s = <<>> \/ anc = JStr(S_0x) THEN <<>>
  ELSE TitleIn(hex_to_string(anc.s))

\* The fallback title: the fixed label and the raw identifier, which the
\* embed quotes in backticks.
MarketIdentifierTitle(item) ==
  S_marketPrefix \o PyStr(GetOr(EventParam(item, "identifier"), JStr(S_NA))) \o S_backtick

\* The thread of r raised while it processed item i.
FaultedAt(r, i) == task[r].fault # "none" /\ task[r].idx = i

\* The item is a DisputePrice event that is dispatched once its param key
\* has the value v: nothing else in it raises.
SoundBut(r, i, key, v) ==
  /\ IsTargetEvent(B(r).items[i])
  /\ ProcessItem(B(r), WithParam(B(r).items[i], key, v)).outcome = "dispatch"

\* The title the embed of an item must carry.
ExpectedTitle(item, extracted) ==
  IF extracted # <<>> THEN extracted ELSE MarketIdentifierTitle(item)

\* C8: a DisputePrice item whose ancillaryData is absent, '0x', malformed hex
\* or text without a title raises nothing and is dispatched with the title
\* 'Market Identifier: ' and the raw identifier; when a non-empty title is
\* extracted, the title of the embed is that extracted title.
C8_TitleOrMarketIdentifier ==
  \A r \in Reqs :
    Arrived(r) =>
      \A i \in 1..Len(B(r).items) :
        (/\ EventParam(B(r).items[i], "ancillaryData").t \in {"absent", "str"}
         /\ SoundBut(r, i, "ancillaryData", JAbsent)) =>
          /\ ~FaultedAt(r, i)
          /\ i \in Passed(r) => EmbedsFor(r, i) # {}
          /\ \A k \in EmbedsFor(r, i) :
               calls[r][k].embed.title =
                 ExpectedTitle(B(r).items[i],
                               ExtractedTitle(EventParam(B(r).items[i], "ancillaryData")))

\* The timestamp param is present and its conversion to a date-time fails.
ConversionFails(ts) ==
  ts.t # "absent" /\ Truthy(ts) /\ ConversionError(PyInt(ts)) # "none"

\* C10: a DisputePrice item whose timestamp param is present and fails to
\* convert (a non-numeric string, a wrong type, an integer outside the range
\* of dates) raises nothing: its embed is still sent, with 'N/A' as its
\* 'Event Timestamp'.
C10_BadTimestampIsNA ==
  \A r \in Reqs :
    Arrived(r) =>
      \A i \in 1..Len(B(r).items) :
        (/\ ConversionFails(EventParam(B(r).items[i], "timestamp"))
         /\ SoundBut(r, i, "timestamp", JStr(T_valid))) =>
          /\ ~FaultedAt(r, i)
          /\ i \in Passed(r) => EmbedsFor(r, i) # {}
          /\ \A k \in EmbedsFor(r, i) : calls[r][k].embed.eventTime = TimeNA

\* The step raises a fault in the thread of q.
FaultsIn(q) == task[q].fault = "none" /\ task'[q].fault # "none"

\* The step leaves request r as it was: its handler, its thread, its calls.
Untouched(r) ==
  /\ gate'[r] = gate[r] /\ resp'[r] = resp[r] /\ spawned'[r] = spawned[r]
  /\ task'[r] = task[r] /\ calls'[r] = calls[r]

\* A fault in one thread changes nothing outside that thread.
FaultStaysInTask ==
  \A q \in Reqs :
    FaultsIn(q) =>
      /\ gate'[q] = gate[q] /\ resp'[q] = resp[q] /\ spawned'[q] = spawned[q]
      /\ \A r \in Reqs \ {q} : Untouched(r)

\* The embeds a payload gives when its thread runs alone: one for each item
\* dispatched before the first item that raises.
OwnAttempts(r) ==
  {i \in 1..Len(B(r).items) :
     /\ ItemResults[body[r]][i].outcome = "dispatch"
     /\ \A j \in 1..i : ItemResults[body[r]][j].outcome # "fault"}

\* Each accepted payload has its own thread, a thread that faulted has ended,
\* and the calls of an ended thread are those of its own payload, whatever
\* the other threads did.
TasksIndependent ==
  \A r \in Reqs :
    /\ Accepted(r) => spawned[r] = 1
    /\ task[r].fault # "none" => TaskDone(r)
    /\ gate[r] = "returned" => resp[r] \in {200, 400, 500}
    /\ (gate[r] = "returned" /\ Accepted(r)) => resp[r] = 200
    /\ (TaskDone(r) /\ Dispatch(B(r)) = "loop") =>
         /\ {calls[r][k].item : k \in 1..Len(calls[r])} = OwnAttempts(r)
         /\ Len(calls[r]) = Cardinality(OwnAttempts(r))
    /\ (TaskDone(r) /\ Dispatch(B(r)) = "passthrough") => Len(calls[r]) = 1

\* C6: with several payloads in flight, each in its own thread, a fault in
\* one thread is caught there: the step that raises it changes no handler
\* and no other thread, the faulting thread ends, and under every
\* interleaving every started thread runs to its end having made the
\* dispatch attempts of its own payload.
C6_TasksIsolated ==
  /\ [][FaultStaysInTask]_vars
  /\ []TasksIndependent
  /\ \A r \in Reqs : TaskRunning(r) ~> TaskDone(r)

\* Two payloads were in flight together: the thread of one raised on its
\* second item after sending its first, and the thread of the other, which
\* began before that fault, ran to its end and sent its embed.
C6_Witness ==
  \E q \in Reqs : \E r \in Reqs \ {q} :
    /\ TaskDone(q) /\ task[q].fault = "ValueError" /\ task[q].idx = 2
    /\ Len(calls[q]) = 1
    /\ TaskDone(r) /\ task[r].fault = "none"
    /\ Len(calls[r]) = 1 /\ calls[r][1].kind = "embed"
    /\ resp[q] = 200 /\ resp[r] = 200

====
